---------------------------- MODULE Spec2Model ----------------------------
(***************************************************************************)
(* Capstone Analytics Suite: the persistent geocode cache                  *)
(* (app/streamlit_app.py, scripts/batch_geocode.py), the cached geocode    *)
(* wrapper with its 24h in-memory memoization, and the valuation request   *)
(* (render_valuation) that uses them.                                      *)
(*                                                                         *)
(* Values.  A DataFrame cell is a record [k, v]: k = "none" (Python None), *)
(* k = "nan" (pandas NaN), k = "num" / "str" (a value).  A cell of the CSV *)
(* file is text: an address cell is a string, a numeric cell is NaN (empty *)
(* text) or a number.  Coordinates are points of a small integer grid.     *)
(***************************************************************************)
EXTENDS Integers, Sequences, FiniteSets, TLC

\* ------------------------------------------------------------------ bounds
\* Most rows the cache file may hold before writers stop adding to it.
MaxRows == 3

\* ------------------------------------------------------------------ values
NoneV == [k |-> "none", v |-> 0]
NaN == [k |-> "nan", v |-> 0]
Num(x) == [k |-> "num", v |-> x]
NaS == [k |-> "nan", v |-> ""]
Str(s) == [k |-> "str", v |-> s]

\* Addresses a user can type into the form.  AddrA and AddrB differ only in
\* case; AddrNA is an address whose text is one of read_csv's NA markers.
AddrA == "12 Main St"
AddrB == "12 main st"
AddrNA == "NA"
AddrBlank == " "
AddrEmpty == ""
GeoAddrs == {AddrA, AddrB, AddrNA}
FormAddrs == GeoAddrs \cup {AddrBlank, AddrEmpty}

\* str(address).strip() == ""
IsBlank(address) == address \in {AddrBlank, AddrEmpty}

\* pandas.read_csv's default NA markers (keep_default_na=True), which apply
\* to a column read with dtype=str as well.
NaValues == {"", "#N/A", "#N/A N/A", "#NA", "-1.#IND", "-1.#QNAN", "-NaN", "-nan",
             "1.#IND", "1.#QNAN", "<NA>", "N/A", "NA", "NULL", "NaN", "None",
             "n/a", "nan", "null"}

\* ---------------------------------------------------------- the CSV file
\* kind: "absent" (no file), "garbage" (read_csv raises a parse error),
\* "blank" (no header line: read_csv raises EmptyDataError), "table".
AllCols == {"address", "lat", "lon"}
NoFile == [kind |-> "absent", cols |-> {}, rows |-> <<>>]
GarbageFile == [kind |-> "garbage", cols |-> {}, rows |-> <<>>]
BlankFile == [kind |-> "blank", cols |-> {}, rows |-> <<>>]
TableFile(cols, rows) == [kind |-> "table", cols |-> cols, rows |-> rows]

EmptyDf == [cols |-> AllCols, rows |-> <<>>]

\* One cell of the address column as read_csv parses it.
ParseAddress(text) == IF text \in NaValues THEN NaS ELSE Str(text)

\* One cell of the address column as to_csv writes it (na_rep = "").
FormatAddress(cell) == IF cell.k = "str" THEN cell.v ELSE ""

\* A numeric cell as to_csv writes it and read_csv reads it back: None and
\* NaN are both written as empty text, which reads back as NaN.
FormatNum(cell) == IF cell.k = "num" THEN cell ELSE NaN

ParseRow(r) == [address |-> ParseAddress(r.address), lat |-> r.lat, lon |-> r.lon]

FormatRow(r) ==
    [address |-> FormatAddress(r.address), lat |-> FormatNum(r.lat), lon |-> FormatNum(r.lon)]

MapSeq(s, Op(_)) == [i \in 1..Len(s) |-> Op(s[i])]

\* pd.read_csv(GEOCODE_CACHE_PATH, dtype={"address": str}); raises on a file
\* it cannot parse.
ReadCsvRaises(f) == f.kind \in {"garbage", "blank"}

ReadCsv(f) == [cols |-> f.cols, rows |-> MapSeq(f.rows, ParseRow)]

\* DataFrame.to_csv(path, index=False)
ToCsv(df) == TableFile(df.cols, MapSeq(df.rows, FormatRow))

read_geocode_cache_df(f) ==
    IF f.kind # "absent"
    THEN IF ReadCsvRaises(f) THEN EmptyDf ELSE ReadCsv(f)
    ELSE EmptyDf

\* cache_df[cache_df["address"] == address]; a KeyError when the frame has
\* no address column.
MatchRaises(df) == "address" \notin df.cols

Match(df, address) == SelectSeq(df.rows, LAMBDA r: r.address = Str(address))

\* A concat that keeps only the new row.
ConcatDropsCache(df, row) == [cols |-> AllCols, rows |-> <<row>>]

\* pd.concat([cache_df, new], ignore_index=True): the union of the columns,
\* cells of a column a frame lacks are NaN.
Concat(df, row) == [cols |-> df.cols \cup AllCols, rows |-> Append(df.rows, row)]

\* _append_geocode_cache_df after its read: the file it leaves, given the
\* frame cache_df it read earlier and the file f as it is now.
append_write(f, cache_df, address, lat, lon) ==
    IF MatchRaises(cache_df) THEN f
    ELSE IF Match(cache_df, address) # <<>> THEN f
    ELSE ToCsv(Concat(cache_df, [address |-> Str(address), lat |-> lat, lon |-> lon]))

\* _append_geocode_cache_df, run with no other writer in between.
append_geocode_cache_df(f, address, lat, lon) ==
    append_write(f, read_geocode_cache_df(f), address, lat, lon)


\* ------------------------------------------------------ external geocoder
P1 == [lat |-> Num(1), lon |-> Num(1)]
P2 == [lat |-> Num(2), lon |-> Num(1)]
Failure == [lat |-> NoneV, lon |-> NoneV]

\* A member of the JSON answer of the geocoding service is a number, null
\* (None in Python) or missing.
Null == NoneV
Missing == [k |-> "missing", v |-> 0]

\* The body of the HTTP answer.  json: r.json() can parse it; status: its
\* "status" member ("missing" when it has none); results: "missing" (no such
\* member), "empty" ([]), "no_location" (results[0] without
\* geometry.location) or "location"; lat, lng: the members of the location.
Body(json, status, results, lat, lng) ==
    [json |-> json, status |-> status, results |-> results, lat |-> lat, lng |-> lng]

\* One call of geocode_address as its surroundings decide it: key (the
\* GOOGLE_GEOCODE_API variable is set), transport ("error": requests.get
\* raises), http ("4xx": raise_for_status raises), and the body.
GeoEnv(key, transport, http, body) ==
    [key |-> key, transport |-> transport, http |-> http, body |-> body]

Bodies ==
    {Body(json, status, results, lat, lng) :
        json \in BOOLEAN, status \in {"OK", "REQUEST_DENIED", "missing"},
        results \in {"missing", "empty", "no_location", "location"},
        lat \in {Num(1), Num(2), Null, Missing}, lng \in {Num(1), Null, Missing}}

GeoEnvs ==
    {GeoEnv(key, transport, http, body) :
        key \in BOOLEAN, transport \in {"ok", "error"}, http \in {"2xx", "4xx"},
        body \in Bodies}

Raise == [k |-> "raise", lat |-> NoneV, lon |-> NoneV]
Return(lat, lon) == [k |-> "return", lat |-> lat, lon |-> lon]

\* The try block of geocode_address (lines 25-34): a return or an exception.
geocode_try(env) ==
    IF env.transport # "ok" THEN Raise
    ELSE IF env.http # "2xx" THEN Raise
    ELSE IF ~env.body.json THEN Raise
    ELSE IF env.body.status = "missing" THEN Raise
    ELSE IF env.body.status = "OK"
    THEN IF env.body.results # "location" THEN Raise
         ELSE IF env.body.lat = Missing \/ env.body.lng = Missing THEN Raise
         ELSE Return(env.body.lat, env.body.lng)
    ELSE Return(NoneV, NoneV)

\* The except clause of lines 35-37: every exception of the try block
\* becomes the return of (None, None).
geocode_except(r) == IF r.k = "raise" THEN Return(NoneV, NoneV) ELSE r

\* geocode_address in the surroundings env (lines 18-37).
geocode_call(env) ==
    IF ~env.key THEN Return(NoneV, NoneV) ELSE geocode_except(geocode_try(env))

\* The surroundings a call for an address can meet while the app runs: the
\* service is unreachable, or answers with a location of the address (which
\* may change between two calls).
Located(lat, lng) == GeoEnv(TRUE, "ok", "2xx", Body(TRUE, "OK", "location", lat, lng))
Unreachable == GeoEnv(TRUE, "error", "2xx", Body(FALSE, "missing", "missing", Missing, Missing))
ServiceEnvs(address) ==
    IF address = AddrB THEN {Located(Num(2), Num(1)), Unreachable}
    ELSE {Located(Num(1), Num(1)), Located(Num(2), Num(1)), Unreachable}

\* What geocode_address can return for an address.
geocode_address(address) ==
    {[lat |-> geocode_call(e).lat, lon |-> geocode_call(e).lon] : e \in ServiceEnvs(address)}

\* --------------------------------------------------- historical sales data
\* Day numbers stand for timestamps, day 1 being 2025-01-01 00:00; Now is
\* datetime.utcnow() and pd.Timestamp.now(), day 400 being 2026-02-04.
Now == 400
DaysPerMonth == 30
\* Prices are whole numbers of a unit of 100,000, as the result reports them
\* (f"{adjusted_price:,.0f}").  factor and ratios are fixed-point numbers
\* with three decimals, the precision the result reports (f"{factor:.3f}"):
\* Scale stands for 1.0.  A result says with its field moved whether the
\* double behind the reported factor is off the reported value by the 1e-9
\* of line 1055.
Scale == 1000
\* The value of x / 1e-9 for x > 0, far above every other ratio.
Huge == 100000

HistCols == {"Date", "Price", "Area", "lat", "lon"}

Sale(date, price, area, lat, lon) ==
    [Date |-> date, Price |-> price, Area |-> area, lat |-> lat, lon |-> lon]

\* data/processed/historical_sales.csv as the app finds it.
HistTable ==
    [kind |-> "table", cols |-> HistCols,
     rows |-> << Sale(Num(390), Num(52), Num(10), Num(2), Num(1)),
                 Sale(Num(380), Num(48), Num(10), Num(4), Num(1)),
                 Sale(Num(395), Num(60), Num(12), Num(7), Num(1)),
                 Sale(Num(100), Num(40), Num(10), Num(1), Num(1)),
                 Sale(Num(391), NaN, Num(10), Num(1), Num(1)) >>]
NoHist == [kind |-> "absent", cols |-> {}, rows |-> <<>>]
InitHist == {HistTable, NoHist}

\* Other contents of the dataset.  HistBoundary: for a query at (1, 1), a
\* radius of 4 and 3 months, a sale on the cutoff day at the radius, sales a
\* day and two days before that cutoff, a sale just outside the radius, and
\* a sale without an Area.  HistNegative: sales entered with negative
\* prices.  HistMany(n): n recent sales at one place.
HistBoundary ==
    [kind |-> "table", cols |-> HistCols,
     rows |-> << Sale(Num(310), Num(50), Num(10), Num(5), Num(1)),
                 Sale(Num(309), Num(55), Num(10), Num(1), Num(1)),
                 Sale(Num(308), Num(45), Num(10), Num(1), Num(1)),
                 Sale(Num(350), Num(50), Num(10), Num(6), Num(1)),
                 Sale(Num(350), Num(60), NaN, Num(1), Num(1)) >>]
HistNegative ==
    [kind |-> "table", cols |-> HistCols,
     rows |-> << Sale(Num(390), Num(-52), Num(10), Num(2), Num(1)),
                 Sale(Num(380), Num(-48), Num(10), Num(1), Num(1)) >>]
HistMany(n) ==
    [kind |-> "table", cols |-> HistCols,
     rows |-> [i \in 1..n |-> Sale(Num(390), Num(50 + i), Num(10), Num(1), Num(1))]]
\* Datasets whose prices are 5 per unit of Area, the prices the comp model
\* "per_area" predicts: below 2^24, from 2^24 on, and with a sale at price 0.
HistExact ==
    [kind |-> "table", cols |-> HistCols,
     rows |-> << Sale(Num(390), Num(50), Num(10), Num(1), Num(1)),
                 Sale(Num(391), Num(60), Num(12), Num(1), Num(1)) >>]
HistExactLarge ==
    [kind |-> "table", cols |-> HistCols,
     rows |-> << Sale(Num(390), Num(200), Num(40), Num(1), Num(1)),
                 Sale(Num(391), Num(170), Num(34), Num(1), Num(1)) >>]
HistExactZero ==
    [kind |-> "table", cols |-> HistCols,
     rows |-> << Sale(Num(390), Num(0), Num(0), Num(1), Num(1)),
                 Sale(Num(391), Num(50), Num(10), Num(1), Num(1)) >>]
\* A dataset whose one sale is a transfer at price 0.
HistFree ==
    [kind |-> "table", cols |-> HistCols,
     rows |-> << Sale(Num(390), Num(0), Num(10), Num(1), Num(1)) >>]
\* A dataset without the Date column.
HistNoDate ==
    [kind |-> "table", cols |-> HistCols \ {"Date"},
     rows |-> << Sale(NaN, Num(52), Num(10), Num(1), Num(1)) >>]
HistNoArea ==
    [kind |-> "table", cols |-> HistCols \ {"Area"},
     rows |-> << Sale(Num(390), Num(52), NaN, Num(2), Num(1)) >>]
HistHeaderOnly == [kind |-> "table", cols |-> HistCols, rows |-> <<>>]
HistGarbage == [kind |-> "garbage", cols |-> {}, rows |-> <<>>]
HistFiles ==
    {HistTable, NoHist, HistBoundary, HistNegative, HistNoArea, HistHeaderOnly, HistGarbage,
     HistExact, HistExactLarge, HistExactZero, HistFree, HistNoDate}
        \cup {HistMany(n) : n \in {4, 5, 9, 10}}

EmptyFrame == [cols |-> {}, rows |-> <<>>]

\* load_historical_sales_cached without its memoization: pd.DataFrame() when
\* the file is missing or cannot be read; read_csv(parse_dates=["Date"])
\* raises on a file without a Date column, which line 78 catches.
load_historical_sales(f) ==
    IF f.kind = "table" /\ "Date" \in f.cols
    THEN [cols |-> f.cols, rows |-> f.rows] ELSE EmptyFrame

Abs(x) == IF x < 0 THEN -x ELSE x

RECURSIVE IsqrtFrom(_, _)
IsqrtFrom(n, r) == IF (r + 1) * (r + 1) > n THEN r ELSE IsqrtFrom(n, r + 1)
Isqrt(n) == IsqrtFrom(n, 0)

\* Distances and radii are whole numbers of half a kilometre (the step of
\* the radius slider), and one grid step is half a kilometre.
\* local_analysis.haversine on the grid (lines 11-16): over these distances
\* the great circle is the straight line, dlat and dlon being the
\* differences of line 12-13.
haversine(lat1, lon1, lat2, lon2) ==
    LET dlon == lon2 - lon1
        dlat == lat2 - lat1
    IN  Isqrt(dlat * dlat + dlon * dlon)

\* A distance that counts the latitude difference northwards only.
haversine_km_northward(lat1, lon1, lat2, lon2) ==
    IF \E c \in {lat1, lon1, lat2, lon2} : c.k # "num" THEN NaN
    ELSE LET dlon == lon2.v - lon1.v
             dlat == IF lat2.v > lat1.v THEN lat2.v - lat1.v ELSE 0
         IN  Num(Isqrt(dlat * dlat + dlon * dlon))

\* streamlit_app.haversine_km (lines 139-148): NaN when a coordinate is None
\* or NaN (line 141), else the same formula.
haversine_km(lat1, lon1, lat2, lon2) ==
    IF \E c \in {lat1, lon1, lat2, lon2} : c.k # "num" THEN NaN
    ELSE LET dlon == lon2.v - lon1.v
             dlat == lat2.v - lat1.v
         IN  Num(Isqrt(dlat * dlat + dlon * dlon))

\* hist.dropna(subset=["lat", "lon", "Price", "Area", "Date"])
dropna(rows) ==
    SelectSeq(rows, LAMBDA r : \A c \in {r.lat, r.lon, r.Price, r.Area, r.Date} : c.k = "num")

\* A filter that keeps only the rows after the cutoff.
recent_comps_after(rows, lat, lon, radius_km, months) ==
    LET cutoff == Now - DaysPerMonth * months
    IN  SelectSeq(dropna(rows),
                  LAMBDA r : /\ r.Date.v > cutoff
                             /\ haversine_km(lat, lon, r.lat, r.lon).k = "num"
                             /\ haversine_km(lat, lon, r.lat, r.lon).v <= radius_km)

\* lines 1035-1037: the rows on or after the cutoff and within the radius.
recent_comps(rows, lat, lon, radius_km, months) ==
    LET cutoff == Now - DaysPerMonth * months
    IN  SelectSeq(dropna(rows),
                  LAMBDA r : /\ r.Date.v >= cutoff
                             /\ haversine_km(lat, lon, r.lat, r.lon).k = "num"
                             /\ haversine_km(lat, lon, r.lat, r.lon).v <= radius_km)

\* Insertion of x into a sorted sequence, and the sort it gives.
RECURSIVE SortedInsert(_, _)
SortedInsert(sq, x) ==
    IF sq = <<>> THEN <<x>>
    ELSE IF x <= Head(sq) THEN <<x>> \o sq
    ELSE <<Head(sq)>> \o SortedInsert(Tail(sq), x)

RECURSIVE Sort(_)
Sort(sq) == IF sq = <<>> THEN <<>> ELSE SortedInsert(Sort(Tail(sq)), Head(sq))

\* n / d for d > 0 as the nearest whole number, a tie going towards zero.
RoundDiv(n, d) ==
    IF n >= 0 THEN (2 * n + d - 1) \div (2 * d) ELSE -((2 * (-n) + d - 1) \div (2 * d))

\* A median that takes the lower of two middle values.
MedianLower(sq) ==
    LET st == Sort(sq)
        n == Len(st)
    IN  st[(n + 1) \div 2]

\* Series.median(): the middle value, or the mean of the two middle values.
Median(sq) ==
    LET st == Sort(sq)
        n == Len(st)
    IN  IF n % 2 = 1 THEN st[(n + 1) \div 2]
        ELSE RoundDiv(st[n \div 2] + st[n \div 2 + 1], 2)

\* A ratio whose guard against a zero prediction is one whole unit.
RatioUnitGuard(price, pred) == RoundDiv(price * Scale, pred + 1)

\* recent["Price"] / (recent["pred_price"] + 1e-9), in units of 1/Scale, for
\* pred >= 0: the 1e-9 makes the quotient a little smaller in size than
\* price / pred, so a tie of the rounding goes towards zero.
Ratio(price, pred) ==
    IF pred = 0 THEN price * Huge ELSE RoundDiv(price * Scale, pred)

\* In doubles pred + 1e-9 == pred from 2^24 = 16,777,216 on, that is from
\* 168 units on; below that the sum is a larger double than pred.
ExactFrom == 168

\* Whether the 1e-9 of line 1055 moves the ratio off price / pred: it does
\* when the sum differs from pred, the quotient of a double by a larger one
\* being a smaller double than their true ratio's nearest.
RatioMoved(price, pred) == price # 0 /\ pred # 0 /\ pred < ExactFrom

\* Whether the median of ratios is off the median of the true ratios: when
\* a middle value is.
MedianMoved(values, moved) ==
    LET n == Len(values)
        mid == IF n % 2 = 1 THEN {(n + 1) \div 2} ELSE {n \div 2, (n \div 2) + 1}
    IN  \E i \in 1..n :
            /\ moved[i]
            /\ \E j \in mid : Sort(values)[j] = values[i]

\* The comp model (models/house_price_model.joblib): "none" when it cannot
\* be loaded; else predict() raises or returns one price per comp, here
\* UnitPrice per unit of Area.
HouseModels == {"none", "raises", "per_area", "flat"}
house_predict(model, row) == IF model = "per_area" THEN 5 * row.Area.v ELSE 50

\* ------------------------------------------------- src/local_analysis.py
\* The calendar of the day numbers: 2025 and 2026 have no 29 February.
DaysPerYear == 365
MonthLen == <<31, 28, 31, 30, 31, 30, 31, 31, 30, 31, 30, 31>>

RECURSIVE DaysBefore(_)
DaysBefore(m) == IF m = 1 THEN 0 ELSE DaysBefore(m - 1) + MonthLen[m - 1]

YearOf(day) == (day - 1) \div DaysPerYear
DayOfYear(day) == ((day - 1) % DaysPerYear) + 1
MonthOf(day) ==
    CHOOSE m \in 1..12 : DaysBefore(m) < DayOfYear(day) /\ DayOfYear(day) <= DaysBefore(m) + MonthLen[m]
DayOfMonth(day) == DayOfYear(day) - DaysBefore(MonthOf(day))

\* day - pd.DateOffset(months=months): the same day of the month that many
\* calendar months earlier, or the last day of that month if it is shorter.
DateOffsetBefore(day, months) ==
    LET total == YearOf(day) * 12 + (MonthOf(day) - 1) - months
        y == total \div 12
        m == (total % 12) + 1
        d == IF DayOfMonth(day) <= MonthLen[m] THEN DayOfMonth(day) ELSE MonthLen[m]
    IN  y * DaysPerYear + DaysBefore(m) + d

\* local_adjustment, line 28: df.dropna(subset=["lat", "lon", "Price", "Date"])
local_dropna(rows) ==
    SelectSeq(rows, LAMBDA r : \A c \in {r.lat, r.lon, r.Price, r.Date} : c.k = "num")

\* local_adjustment, lines 28-34: the rows within the radius and on or after
\* the cutoff, for a query point with numeric coordinates.
local_comps(rows, lat, lon, radius_km, months) ==
    LET cutoff == DateOffsetBefore(Now, months)
    IN  SelectSeq(local_dropna(rows),
                  LAMBDA r : /\ haversine(lat, lon, r.lat.v, r.lon.v) <= radius_km
                             /\ r.Date.v >= cutoff)

RECURSIVE SumSeq(_)
SumSeq(sq) == IF sq = <<>> THEN 0 ELSE Head(sq) + SumSeq(Tail(sq))

\* local_adjustment (lines 22-43) on the file f: an exception of read_csv or
\* of a missing column leaves the function; else the factor it returns, in
\* units of 1/Scale (NaN for 0 / 0), with the df_filtered it came from.
local_adjustment(lat, lon, radius_km, months, f) ==
    IF f.kind = "absent" THEN [k |-> "return", factor |-> Num(Scale), comps |-> <<>>]
    ELSE IF f.kind # "table" THEN [k |-> "raise", factor |-> NaN, comps |-> <<>>]
    ELSE IF ~({"lat", "lon", "Price", "Date"} \subseteq f.cols)
    THEN [k |-> "raise", factor |-> NaN, comps |-> <<>>]
    ELSE LET df_filtered == local_comps(f.rows, lat, lon, radius_km, months)
             prices == [i \in 1..Len(df_filtered) |-> df_filtered[i].Price.v]
             total == SumSeq(prices)
             n == Len(prices)
         IN  IF df_filtered = <<>> THEN [k |-> "return", factor |-> Num(Scale), comps |-> <<>>]
             ELSE IF total = 0 THEN [k |-> "return", factor |-> NaN, comps |-> df_filtered]
             ELSE [k |-> "return",
                   factor |-> Num(IF total > 0 THEN RoundDiv(Median(prices) * Scale * n, total)
                                  ELSE RoundDiv(-(Median(prices) * Scale * n), -total)),
                   comps |-> df_filtered]

NoResult ==
    [status |-> "none", base_price |-> NoneV, adjusted_price |-> NoneV,
     factor |-> Scale, moved |-> FALSE, comps |-> <<>>, confidence |-> "none", stages |-> <<>>]

\* A confidence label whose High starts above 10.
ConfidenceAbove(n) == IF n > 10 THEN "High" ELSE IF n >= 5 THEN "Medium" ELSE "Low"

\* Line 1094: the confidence label.
Confidence(n) == IF n >= 10 THEN "High" ELSE IF n >= 5 THEN "Medium" ELSE "Low"

\* Defaults that start the factor at zero.
DefaultsZeroFactor(base_price) ==
    [factor |-> 0, adjusted_price |-> base_price, comps |-> <<>>, moved |-> FALSE]

\* Lines 1028-1030: the result before any local adjustment.
Defaults(base_price) ==
    [factor |-> Scale, adjusted_price |-> base_price, comps |-> <<>>, moved |-> FALSE]

\* Line 1057: np.isfinite(factor) and factor > 0.
ValidFactor(factor) == factor > 0

\* Lines 1058, 1068, 1074: base_price * factor, in whole units.
Adjust(base_price, factor) == Num(RoundDiv(base_price.v * factor, Scale))

\* Lines 1065-1069 and 1071-1075: the factor from the median comp price, when
\* the comp model is missing or its prediction raised.
median_fallback(base_price, recent) ==
    LET med == Median([i \in 1..Len(recent) |-> recent[i].Price.v])
    IN  IF med # 0 /\ base_price.v # 0
        THEN LET factor == IF base_price.v > 0 THEN RoundDiv(med * Scale, base_price.v)
                           ELSE RoundDiv(-(med * Scale), -base_price.v)
             IN  [factor |-> factor, adjusted_price |-> Adjust(base_price, factor),
                  comps |-> recent, moved |-> FALSE]
        ELSE Defaults(base_price)

\* A re-ranking whose gate resets the factor and keeps the price adjusted
\* by the rejected factor.
model_rerank_keeps_price(base_price, recent, model) ==
    LET ratios == [i \in 1..Len(recent) |->
                      Ratio(recent[i].Price.v, house_predict(model, recent[i]))]
        factor == Median(ratios)
    IN  [factor |-> IF ValidFactor(factor) THEN factor ELSE Scale,
         adjusted_price |-> Adjust(base_price, factor), comps |-> recent, moved |-> FALSE]

\* Lines 1050-1062: the factor from the comp model's predictions.
model_rerank(base_price, recent, model) ==
    LET ratios == [i \in 1..Len(recent) |->
                      Ratio(recent[i].Price.v, house_predict(model, recent[i]))]
        moved == [i \in 1..Len(recent) |->
                     RatioMoved(recent[i].Price.v, house_predict(model, recent[i]))]
        factor == Median(ratios)
    IN  IF ValidFactor(factor)
        THEN [factor |-> factor, adjusted_price |-> Adjust(base_price, factor), comps |-> recent,
              moved |-> MedianMoved(ratios, moved)]
        ELSE [factor |-> Scale, adjusted_price |-> base_price, comps |-> recent, moved |-> FALSE]

\* Stages with the comp re-ranking recorded ahead of the comp filter.
StagesRerankFirst(filtered, reranked) ==
    <<"BasePrediction">>
    \o (IF reranked THEN <<"CompReranking">> ELSE <<>>)
    \o (IF filtered THEN <<"CompFiltering">> ELSE <<>>)
    \o <<"Done">>

\* The stages of render_valuation after the geocoding, in the order of the
\* code: the base prediction (lines 1019-1025), the comp filter (lines
\* 1034-1037, behind the tests of lines 1032-1033), the comp re-ranking
\* (lines 1039-1075, behind the test of line 1038), the result (line 1086).
StagesAfterGeocoding(filtered, reranked) ==
    <<"BasePrediction">>
    \o (IF filtered THEN <<"CompFiltering">> ELSE <<>>)
    \o (IF reranked THEN <<"CompReranking">> ELSE <<>>)
    \o <<"Done">>

\* A valuation that does not test the columns of the dataset.
valuation_any_columns(lat, lon, base_price, hist, model, radius_km, months) ==
    LET usable == /\ lat # NoneV /\ lon # NoneV /\ hist.rows # <<>> /\ base_price # NoneV
        recent == IF usable THEN recent_comps(hist.rows, lat, lon, radius_km, months) ELSE <<>>
        out == IF recent = <<>> THEN Defaults(base_price)
               ELSE IF model \in {"none", "raises"} THEN median_fallback(base_price, recent)
               ELSE model_rerank(base_price, recent, model)
    IN  [status |-> "done", base_price |-> base_price, adjusted_price |-> out.adjusted_price,
         factor |-> out.factor, moved |-> out.moved, comps |-> out.comps,
         confidence |-> IF base_price = NoneV THEN "none" ELSE Confidence(Len(out.comps)),
         stages |-> StagesAfterGeocoding(usable, recent # <<>>)]

\* render_valuation from line 1019 on, for the coordinates (lat, lon) the
\* geocoding left: base prediction, comps, factor, adjusted price.  The
\* confidence label is shown with a base price only (line 1090).
valuation(lat, lon, base_price, hist, model, radius_km, months) ==
    LET usable == /\ lat # NoneV /\ lon # NoneV /\ hist.rows # <<>> /\ base_price # NoneV
                  /\ HistCols \subseteq hist.cols
        recent == IF usable THEN recent_comps(hist.rows, lat, lon, radius_km, months) ELSE <<>>
        out == IF recent = <<>> THEN Defaults(base_price)
               ELSE IF model \in {"none", "raises"} THEN median_fallback(base_price, recent)
               ELSE model_rerank(base_price, recent, model)
    IN  [status |-> "done", base_price |-> base_price, adjusted_price |-> out.adjusted_price,
         factor |-> out.factor, moved |-> out.moved, comps |-> out.comps,
         confidence |-> IF base_price = NoneV THEN "none" ELSE Confidence(Len(out.comps)),
         stages |-> StagesAfterGeocoding(usable, recent # <<>>)]

\* ------------------------------------------------------------------ state
Sessions == {"s1", "s2"}

VARIABLES
    cacheFile,   \* data/processed/geocode_cache.csv
    memo,        \* st.cache_data store of cached_geocode: address -> result
    histFile,    \* data/processed/historical_sales.csv
    histMemo,    \* st.cache_data store of load_historical_sales_cached
    sess,        \* per browser session: the running render_valuation
    batch,       \* the run of scripts/batch_geocode.py, if one is under way
    call         \* the last direct call of a library function, with its result

vars == <<cacheFile, memo, histFile, histMemo, sess, batch, call>>

NoCall == [fn |-> "none"]

NoMemo == [hit |-> FALSE, lat |-> NoneV, lon |-> NoneV]
Memoized(lat, lon) == [hit |-> TRUE, lat |-> lat, lon |-> lon]

NoHistMemo == [hit |-> FALSE, df |-> EmptyFrame]

\* wrote: this request wrote the cache file; seen: the addresses its store
\* read from the file; touched: what its geocoding used of "memo" (the
\* st.cache_data store), "cache" (the cache file) and "geocoder" (history
\* of the request, for the properties).
IdleSession ==
    [pc |-> "idle", address |-> AddrEmpty, lat |-> NoneV, lon |-> NoneV,
     cache_df |-> EmptyDf, wrote |-> FALSE, seen |-> {}, touched |-> {},
     result |-> NoResult]

\* cache_index is the dict of batch_geocode.main, in insertion order.
\* calls: the addresses place_details was called with in this run; start:
\* the address texts of the cache file when the run read it (history of the
\* run, for the properties).
IdleBatch ==
    [pc |-> "idle", input |-> <<>>, i |-> 1, cache_index |-> <<>>, results |-> <<>>,
     calls |-> <<>>, start |-> {}]

\* The cache file when the app starts: missing, damaged, or a table left by
\* another program.
InitFiles ==
    {NoFile, GarbageFile,
     TableFile({"lat", "lon"}, <<>>),
     TableFile({"address"}, <<[address |-> AddrA, lat |-> NaN, lon |-> NaN]>>)}

Init ==
    /\ cacheFile \in InitFiles
    /\ memo = [a \in GeoAddrs |-> NoMemo]
    /\ histFile \in InitHist
    /\ histMemo = NoHistMemo
    /\ sess = [s \in Sessions |-> IdleSession]
    /\ batch = IdleBatch
    /\ call = NoCall

\* The inputs of a request besides the address: what predict_house_price
\* returns (None when it raises), the comp model, and the two sliders.
\* FormDefaults has the sliders at their initial values (2 km, that is 4
\* half kilometres, and 3 months).
FormDefaults ==
    [base_prices |-> {Num(50)}, models |-> {"flat"}, radii |-> {4}, lookbacks |-> {3}]
AppInputs ==
    [base_prices |-> {NoneV, Num(50)}, models |-> {"flat"}, radii |-> {4}, lookbacks |-> {3}]

InFlight == {s \in Sessions : sess[s].pc \in {"cg_geocode", "store_read", "store_write"}}

\* --------------------------------------------------------- cached_geocode
\* float(match.iloc[0]["lat"]), float(match.iloc[0]["lon"]) raise when the
\* frame lacks the column; float(NaN) does not raise.
HitRaises(df) == ~ ({"lat", "lon"} \subseteq df.cols)

\* The disk lookup at the start of cached_geocode (lines 113-122): "raises"
\* (the KeyError of line 114 leaves cached_geocode), "hit" with the
\* coordinates of the first matching row, or "miss".
lookup(f, address) ==
    LET df == read_geocode_cache_df(f)
        m == Match(df, address)
    IN  IF MatchRaises(df) THEN [k |-> "raises", lat |-> NoneV, lon |-> NoneV]
        ELSE IF m # <<>> /\ ~HitRaises(df) THEN [k |-> "hit", lat |-> m[1].lat, lon |-> m[1].lon]
        ELSE [k |-> "miss", lat |-> NoneV, lon |-> NoneV]

Hit(lat, lon) == [k |-> "hit", lat |-> lat, lon |-> lon]

\* The frame the local name hist of render_valuation is bound to when the
\* request ends: behind the tests of lines 1032-1033 the dropna of line 1034
\* gives a new frame, to which line 1036 adds the column dist_km.
hist_local(hist, lat, lon, base_price) ==
    IF /\ lat # NoneV /\ lon # NoneV /\ hist.rows # <<>> /\ base_price # NoneV
       /\ HistCols \subseteq hist.cols
    THEN [cols |-> hist.cols \cup {"dist_km"}, rows |-> dropna(hist.rows)]
    ELSE hist

\* A store that hands its callers the stored frame itself.
cache_data_shared(stored, local) == local

\* The entry of st.cache_data (line 70) after a caller worked on what it
\* was handed: every caller gets a copy of its own, so the entry is the
\* frame as it was stored, whatever became of the caller's frame.
cache_data_entry(stored, local) == stored

\* render_valuation from line 1019 to the result, once the coordinates are
\* known: predict_house_price gives base_price or raises (None), the
\* dataset comes from load_historical_sales_cached, the comp model from
\* load_house_model_cached.
Complete(s, inp, address, lat, lon, wrote, seen, touched) ==
    \E base_price \in inp.base_prices, model \in inp.models,
       radius_km \in inp.radii, months \in inp.lookbacks :
        LET hist == IF histMemo.hit THEN histMemo.df ELSE load_historical_sales(histFile)
        IN  /\ histMemo' = [hit |-> TRUE,
                             df |-> cache_data_entry(hist, hist_local(hist, lat, lon, base_price))]
            /\ sess' = [sess EXCEPT ![s] =
                          [pc |-> "done", address |-> address, lat |-> lat, lon |-> lon,
                           cache_df |-> EmptyDf, wrote |-> wrote, seen |-> seen,
                           touched |-> touched,
                           result |->
                               LET v == valuation(lat, lon, base_price, hist, model,
                                                  radius_km, months)
                               IN  [v EXCEPT !.stages =
                                       (IF IsBlank(address) THEN <<>> ELSE <<"Geocoding">>) \o @]]]

\* The form is submitted (line 1011); a non-blank address goes to
\* cached_geocode: the memoized result if there is one, else the disk
\* lookup of lines 113-122.
Submit(s, inp) ==
    /\ sess[s].pc = "idle"
    /\ Len(cacheFile.rows) + Cardinality(InFlight) < MaxRows
    /\ \E address \in FormAddrs :
         IF IsBlank(address)
         THEN Complete(s, inp, address, NoneV, NoneV, FALSE, {}, {}) /\ UNCHANGED memo
         ELSE IF memo[address].hit
         THEN Complete(s, inp, address, memo[address].lat, memo[address].lon, FALSE, {},
                       {"memo"})
              /\ UNCHANGED memo
         ELSE LET found == lookup(cacheFile, address)
              IN  IF found.k = "raises"
                  THEN \* the KeyError leaves cached_geocode and render_valuation
                       /\ sess' = [sess EXCEPT ![s] =
                                     [IdleSession EXCEPT !.pc = "raised", !.address = address,
                                                         !.touched = {"memo", "cache"}]]
                       /\ UNCHANGED <<memo, histMemo>>
                  ELSE IF found.k = "hit"
                  THEN /\ Complete(s, inp, address, found.lat, found.lon, FALSE, {},
                                   {"memo", "cache"})
                       /\ memo' = [memo EXCEPT ![address] = Memoized(found.lat, found.lon)]
                  ELSE /\ sess' = [sess EXCEPT ![s] =
                                     [IdleSession EXCEPT !.pc = "cg_geocode", !.address = address,
                                                         !.touched = {"memo", "cache"}]]
                       /\ UNCHANGED <<memo, histMemo>>
    /\ UNCHANGED <<cacheFile, histFile, batch, call>>

\* A test of line 130 that lets every geocoder result through.
ShouldStoreAlways(r) == TRUE

\* Whether cached_geocode goes on to store a geocoder result (line 130).
ShouldStore(r) == r.lat # NoneV /\ r.lon # NoneV

\* geocode_address(address) (lines 124-128) and the test of line 130.
CgGeocode(s, inp) ==
    /\ sess[s].pc = "cg_geocode"
    /\ \E r \in geocode_address(sess[s].address) :
         IF ShouldStore(r)
         THEN /\ sess' = [sess EXCEPT ![s].pc = "store_read", ![s].lat = r.lat, ![s].lon = r.lon,
                                         ![s].touched = @ \cup {"geocoder"}]
              /\ UNCHANGED <<memo, histMemo>>
         ELSE /\ Complete(s, inp, sess[s].address, r.lat, r.lon, FALSE, {},
                          sess[s].touched \cup {"geocoder"})
              /\ memo' = [memo EXCEPT ![sess[s].address] = Memoized(r.lat, r.lon)]
    /\ UNCHANGED <<cacheFile, histFile, batch, call>>

StrAddrs(rows) == {rows[i].address.v : i \in {j \in 1..Len(rows) : rows[j].address.k = "str"}}

\* _append_geocode_cache_df, line 99: read the whole file.
StoreRead(s) ==
    /\ sess[s].pc = "store_read"
    /\ LET df == read_geocode_cache_df(cacheFile)
       IN  sess' = [sess EXCEPT ![s].pc = "store_write", ![s].cache_df = df,
                                ![s].seen = StrAddrs(df.rows)]
    /\ UNCHANGED <<cacheFile, memo, histFile, histMemo, batch, call>>

\* _append_geocode_cache_df, lines 100-104: write the whole file; then the
\* return of cached_geocode (line 136) and the rest of the request.
StoreWrite(s, inp) ==
    /\ sess[s].pc = "store_write"
    /\ LET f == append_write(cacheFile, sess[s].cache_df, sess[s].address,
                             sess[s].lat, sess[s].lon)
           wrote == ~MatchRaises(sess[s].cache_df)
                    /\ Match(sess[s].cache_df, sess[s].address) = <<>>
       IN  /\ cacheFile' = f
           /\ Complete(s, inp, sess[s].address, sess[s].lat, sess[s].lon, wrote, sess[s].seen,
                       sess[s].touched)
    /\ memo' = [memo EXCEPT ![sess[s].address] = Memoized(sess[s].lat, sess[s].lon)]
    /\ UNCHANGED <<histFile, batch, call>>

\* The result page is left (the script of the page reruns).
Close(s) ==
    /\ sess[s].pc \in {"done", "raised"}
    /\ sess' = [sess EXCEPT ![s] = IdleSession]
    /\ UNCHANGED <<cacheFile, memo, histFile, histMemo, batch, call>>

\* An entry of cached_geocode's st.cache_data store reaches its ttl (24h).
MemoExpire ==
    /\ \E a \in GeoAddrs :
         /\ memo[a].hit
         /\ memo' = [memo EXCEPT ![a] = NoMemo]
    /\ UNCHANGED <<cacheFile, histFile, histMemo, sess, batch, call>>

\* The entry of load_historical_sales_cached reaches its ttl (24h).
HistMemoExpire ==
    /\ histMemo.hit
    /\ histMemo' = NoHistMemo
    /\ UNCHANGED <<cacheFile, memo, histFile, sess, batch, call>>

\* ---------------------------------------------- scripts/batch_geocode.py
\* data/raw/historical_sales_raw.csv as read by pd.read_csv: a row's Address
\* is a string, NaN (an empty cell) or None (the file has no such column).
Raw(address, date, price, area) ==
    [Address |-> address, Date |-> Num(date), Price |-> Num(price), Area |-> Num(area)]
RawSales == << Raw(Str(AddrA), 390, 52, 10), Raw(Str(AddrB), 380, 48, 10) >>
RawNoAddress == << Raw(NoneV, 390, 52, 10) >>
BatchInputs == {RawSales, RawNoAddress}

\* A cell of an address column in which read_csv found NA markers only: the
\* column is of dtype float64, and the value a row gives for it is a NaN
\* boxed anew at every access, an object equal to no other (text: the
\* marker in the file).
NaF(text) == [k |-> "nan64", v |-> text]

\* More raw datasets: an address twice, an address three times among
\* others, and one whose only address is the NA marker "NA".
RawRepeat == << Raw(Str(AddrA), 390, 52, 10), Raw(Str(AddrA), 380, 48, 10) >>
RawMixed == << Raw(Str(AddrB), 390, 52, 10), Raw(Str(AddrA), 380, 48, 10),
               Raw(Str(AddrB), 370, 50, 10) >>
RawMarker == << Raw(NaF(AddrNA), 390, 52, 10) >>
WideInputs == BatchInputs \cup {RawRepeat, RawMixed, RawMarker}

\* place_details(addr): the coordinates of the place, None (no key, status not
\* OK), or an exception of the HTTP call.
PlaceResults == {"found", "none", "raises"}
PlaceCoords(addr) == IF addr = Str(AddrA) THEN P1 ELSE P2

\* dict operations, the dict being a sequence of entries with distinct keys.
\* key in d: a NaN of a float64 column is found under no key, not being
\* the same object as any.
DictHas(d, key) == key.k # "nan64" /\ \E j \in 1..Len(d) : d[j].key = key
DictGet(d, key) == d[CHOOSE j \in 1..Len(d) : d[j].key = key]
DictPut(d, key, lat, lon) ==
    IF DictHas(d, key)
    THEN [j \in 1..Len(d) |-> IF d[j].key = key THEN [key |-> key, lat |-> lat, lon |-> lon] ELSE d[j]]
    ELSE Append(d, [key |-> key, lat |-> lat, lon |-> lon])

\* {row.address: (row.lat, row.lon) for _, row in cache.iterrows()} on a frame whose address column holds strings: a later row replaces the
\* entry of an earlier row with the same key.
RECURSIVE DictFold(_)
DictFold(rows) ==
    IF rows = <<>> THEN <<>>
    ELSE LET n == Len(rows)
             r == rows[n]
         IN  DictPut(DictFold(SubSeq(rows, 1, n - 1)), r.address, r.lat, r.lon)

\* Lines 18-21.  An address column with no string in it is read as float64
\* and each of its NaN cells is a key of its own; otherwise the column is
\* of dtype object and equal cells are one key.
DictOfRows(rows) ==
    IF \A i \in 1..Len(rows) : rows[i].address.k # "str"
    THEN [i \in 1..Len(rows) |-> [key |-> NaF(""), lat |-> rows[i].lat, lon |-> rows[i].lon]]
    ELSE DictFold(rows)

\* Lines 18-21: pd.read_csv(CACHE) raises on a file it cannot parse, and
\* row.address, row.lat, row.lon raise on a column the file lacks.
BatchReadRaises(f) ==
    \/ ReadCsvRaises(f)
    \/ f.kind = "table" /\ f.rows # <<>> /\ f.cols # AllCols

\* Lines 16-21: read the raw dataset and the cache file.
BatchBegin(input) ==
    IF BatchReadRaises(cacheFile)
    THEN batch' = [IdleBatch EXCEPT !.pc = "raised"]
    ELSE batch' = [pc |-> "loop", input |-> input, i |-> 1,
                   cache_index |-> DictOfRows(ReadCsv(cacheFile).rows),
                   results |-> <<>>, calls |-> <<>>,
                   start |-> {cacheFile.rows[j].address : j \in 1..Len(cacheFile.rows)}]

BatchStart ==
    /\ batch.pc = "idle"
    /\ \E input \in BatchInputs : BatchBegin(input)
    /\ UNCHANGED <<cacheFile, memo, histFile, histMemo, sess, call>>

\* The same on any of the raw datasets, while the cache file is short.
BatchStartWide ==
    /\ batch.pc = "idle"
    /\ Len(cacheFile.rows) < MaxRows
    /\ \E input \in WideInputs : BatchBegin(input)
    /\ UNCHANGED <<cacheFile, memo, histFile, histMemo, sess, call>>

\* Lines 24-45: one row of the raw dataset.
BatchRow ==
    /\ batch.pc = "loop"
    /\ batch.i <= Len(batch.input)
    /\ LET r == batch.input[batch.i]
           addr == r.Address
           out(lat, lon) == [Address |-> addr, Date |-> r.Date, Price |-> r.Price,
                             Area |-> r.Area, lat |-> lat, lon |-> lon]
       IN  IF addr = NoneV
           THEN batch' = [batch EXCEPT !.i = @ + 1]
           ELSE IF DictHas(batch.cache_index, addr)
           THEN LET e == DictGet(batch.cache_index, addr)
                IN  batch' = [batch EXCEPT !.i = @ + 1,
                                           !.results = Append(@, out(e.lat, e.lon))]
           ELSE \E detail \in PlaceResults :
                  IF detail = "raises"
                  THEN batch' = [IdleBatch EXCEPT !.pc = "raised"]
                  ELSE LET c == IF detail = "found" THEN PlaceCoords(addr) ELSE Failure
                       IN  batch' = [batch EXCEPT
                                       !.i = @ + 1,
                                       !.calls = Append(@, addr),
                                       !.cache_index = DictPut(@, addr, c.lat, c.lon),
                                       !.results = Append(@, out(c.lat, c.lon))]
    /\ UNCHANGED <<cacheFile, memo, histFile, histMemo, sess, call>>

\* pd.DataFrame(rows).to_csv(path, index=False): no header line when there
\* are no rows.
RowsToCsv(cols, rows) ==
    IF rows = <<>> THEN [kind |-> "blank", cols |-> {}, rows |-> <<>>]
    ELSE [kind |-> "table", cols |-> cols, rows |-> rows]

CacheIndexRow(e) ==
    [address |-> FormatAddress(e.key), lat |-> FormatNum(e.lat), lon |-> FormatNum(e.lon)]

ResultRow(r) ==
    [Address |-> FormatAddress(r.Address), Date |-> r.Date, Price |-> r.Price,
     Area |-> r.Area, lat |-> FormatNum(r.lat), lon |-> FormatNum(r.lon)]

\* Lines 47-52: write the processed dataset and the cache file.
BatchFinish ==
    /\ batch.pc = "loop"
    /\ batch.i > Len(batch.input)
    /\ histFile' = RowsToCsv(HistCols \cup {"Address"}, MapSeq(batch.results, ResultRow))
    /\ cacheFile' = RowsToCsv(AllCols, MapSeq(batch.cache_index, CacheIndexRow))
    /\ batch' = IdleBatch
    /\ UNCHANGED <<memo, histMemo, sess, call>>

\* The script is started again after a run that raised.
BatchRestart ==
    /\ batch.pc = "raised"
    /\ batch' = IdleBatch
    /\ UNCHANGED <<cacheFile, memo, histFile, histMemo, sess, call>>

\* The cache file when a run of the script starts: missing, left by the
\* app (with the address "NA" alone, or with an address and "NA"), or left
\* by a run of the script that failed to locate an address.
BatchCacheFiles ==
    {NoFile,
     TableFile(AllCols, <<[address |-> AddrA, lat |-> Num(1), lon |-> Num(1)]>>),
     TableFile(AllCols, <<[address |-> AddrNA, lat |-> Num(1), lon |-> Num(1)]>>),
     TableFile(AllCols, <<[address |-> AddrA, lat |-> NaN, lon |-> NaN]>>)}

InitBatch ==
    /\ cacheFile \in BatchCacheFiles
    /\ memo = [a \in GeoAddrs |-> NoMemo]
    /\ histFile = NoHist
    /\ histMemo = NoHistMemo
    /\ sess = [s \in Sessions |-> IdleSession]
    /\ batch = IdleBatch
    /\ call = NoCall

\* Runs of the script alone, one after the other.
NextBatch ==
    \/ BatchStartWide
    \/ BatchRow
    \/ BatchFinish
    \/ BatchRestart

SpecBatch == InitBatch /\ [][NextBatch]_vars

\* No request and no batch run is under way.
Quiet == batch.pc = "idle" /\ \A s \in Sessions : sess[s].pc = "idle"

\* One app session and the batch script, one after the other: a request runs
\* from its submission to its result while no batch run is under way, and
\* a batch run starts between two requests.
Next ==
    \/ batch.pc = "idle" /\ Submit("s1", AppInputs)
    \/ CgGeocode("s1", AppInputs)
    \/ StoreRead("s1")
    \/ StoreWrite("s1", AppInputs)
    \/ Close("s1")
    \/ Quiet /\ MemoExpire
    \/ Quiet /\ HistMemoExpire
    \/ Quiet /\ BatchStart
    \/ BatchRow
    \/ BatchFinish
    \/ BatchRestart

Spec == Init /\ [][Next]_vars

\* Two app sessions within one ttl period (no memo entry expires), and no
\* batch run.
NextRace ==
    \/ \E s \in Sessions : Submit(s, FormDefaults)
    \/ \E s \in Sessions : CgGeocode(s, FormDefaults)
    \/ \E s \in Sessions : StoreRead(s)
    \/ \E s \in Sessions : StoreWrite(s, FormDefaults)
    \/ \E s \in Sessions : Close(s)

InitRace ==
    /\ cacheFile = NoFile
    /\ memo = [a \in GeoAddrs |-> NoMemo]
    /\ histFile = HistTable
    /\ histMemo = NoHistMemo
    /\ sess = [s \in Sessions |-> IdleSession]
    /\ batch = IdleBatch
    /\ call = NoCall

SpecRace == InitRace /\ [][NextRace]_vars

\* ------------------------------------------- the functions called directly
\* The points, radii and lookbacks of the direct calls.
Grid == 0..3
CallRadii == {1, 4, 20}
CallMonths == {1, 3, 12}

\* geocode_address(address) in the surroundings env.
GeocodeAddressCall ==
    /\ call = NoCall
    /\ \E env \in GeoEnvs :
         call' = [fn |-> "geocode_address", env |-> env, out |-> geocode_call(env)]
    /\ UNCHANGED <<cacheFile, memo, histFile, histMemo, sess, batch>>

\* local_analysis.haversine and streamlit_app.haversine_km for the points
\* p = (lat1, lon1) and q = (lat2, lon2), in both orders.
HaversineCall ==
    /\ call = NoCall
    /\ \E lat1 \in Grid, lon1 \in Grid, lat2 \in Grid, lon2 \in Grid :
         call' = [fn |-> "haversine", p |-> <<lat1, lon1>>, q |-> <<lat2, lon2>>,
                  pq |-> haversine(lat1, lon1, lat2, lon2),
                  qp |-> haversine(lat2, lon2, lat1, lon1),
                  pp |-> haversine(lat1, lon1, lat1, lon1),
                  km_pq |-> haversine_km(Num(lat1), Num(lon1), Num(lat2), Num(lon2)),
                  km_qp |-> haversine_km(Num(lat2), Num(lon2), Num(lat1), Num(lon1)),
                  km_pp |-> haversine_km(Num(lat1), Num(lon1), Num(lat1), Num(lon1))]
    /\ UNCHANGED <<cacheFile, memo, histFile, histMemo, sess, batch>>

\* The comp filter of render_valuation (lines 1034-1037) and that of
\* local_adjustment (lines 28-34) on the same dataset and inputs.
FilterCall ==
    /\ call = NoCall
    /\ \E lat \in Grid, lon \in {1}, radius_km \in CallRadii, months \in CallMonths,
          f \in {h \in HistFiles : h.kind = "table" /\ HistCols \subseteq h.cols} :
         call' = [fn |-> "filter", lat |-> lat, lon |-> lon, radius_km |-> radius_km,
                  months |-> months, rows |-> f.rows,
                  recent |-> recent_comps(f.rows, Num(lat), Num(lon), radius_km, months),
                  df_filtered |-> local_comps(f.rows, lat, lon, radius_km, months)]
    /\ UNCHANGED <<cacheFile, memo, histFile, histMemo, sess, batch>>

\* local_adjustment(lat, lon, radius_km, months) on the dataset file f.
LocalAdjustmentCall ==
    /\ call = NoCall
    /\ \E lat \in Grid, lon \in {1}, radius_km \in CallRadii, months \in CallMonths,
          f \in HistFiles :
         call' = [fn |-> "local_adjustment", lat |-> lat, lon |-> lon,
                  radius_km |-> radius_km, months |-> months, file |-> f,
                  out |-> local_adjustment(lat, lon, radius_km, months, f)]
    /\ UNCHANGED <<cacheFile, memo, histFile, histMemo, sess, batch>>

\* render_valuation from line 1019 on, for coordinates, a base price, a
\* dataset, a comp model and slider values.
ValuationCall ==
    /\ call = NoCall
    /\ \E lat \in {NoneV, Num(1)}, lon \in {NoneV, Num(1)},
          base_price \in {NoneV, Num(0), Num(50)}, model \in HouseModels,
          radius_km \in CallRadii, months \in CallMonths, f \in HistFiles :
         call' = [fn |-> "valuation", lat |-> lat, lon |-> lon, base_price |-> base_price,
                  model |-> model, radius_km |-> radius_km, months |-> months,
                  file |-> f, hist |-> load_historical_sales(f),
                  out |-> valuation(lat, lon, base_price, load_historical_sales(f), model,
                                    radius_km, months)]
    /\ UNCHANGED <<cacheFile, memo, histFile, histMemo, sess, batch>>

\* Addresses that differ from one another only in case or in surrounding
\* whitespace: two variants of a street address, and the NA marker "NA"
\* with its lower-case variant, which is no NA marker.
AddrPadded == "12 Main St "
AddrNaLower == "na"
CaseVariants == {<<AddrA, AddrB>>, <<AddrB, AddrA>>, <<AddrA, AddrPadded>>,
                 <<AddrPadded, AddrA>>, <<AddrNA, AddrNaLower>>, <<AddrNaLower, AddrNA>>}

\* On a cache file of its own: _append_geocode_cache_df(a, ...), the disk
\* lookup of cached_geocode for b, _append_geocode_cache_df(b, ...), and
\* the disk lookups for a and b after that.
StoreLookupCall ==
    /\ call = NoCall
    /\ \E pair \in CaseVariants, f \in {NoFile, GarbageFile, TableFile(AllCols, <<>>)} :
         LET a == pair[1]
             b == pair[2]
             after_a == append_geocode_cache_df(f, a, P1.lat, P1.lon)
             after_b == append_geocode_cache_df(after_a, b, P2.lat, P2.lon)
         IN  call' = [fn |-> "store_lookup", a |-> a, b |-> b,
                      after_a |-> after_a, b_before |-> lookup(after_a, b),
                      after_b |-> after_b,
                      a_after |-> lookup(after_b, a), b_after |-> lookup(after_b, b)]
    /\ UNCHANGED <<cacheFile, memo, histFile, histMemo, sess, batch>>

\* ------------------------------------------ scripts/ingest_recent_sales.py
\* A row of a frame of sales with the columns Address, Date and Price; the
\* Date is a timestamp (lines 15-16 and parse_dates of line 19).
NewSale(address, date, price) == [Address |-> address, Date |-> date, Price |-> price]

IngestRows == {NewSale(a, 390, p) : a \in {AddrA, AddrB}, p \in {50, 60}}

\* The frames handed to ingest: one or two rows.
IngestFrames == {<<r>> : r \in IngestRows} \cup {<<r, q>> : r \in IngestRows, q \in IngestRows}

\* combined.drop_duplicates(subset=['Address', 'Date'], keep='last'): a row
\* stays when no later row has its Address and Date.
drop_duplicates_last(rows) ==
    LET kept == {i \in 1..Len(rows) :
                    ~\E j \in (i + 1)..Len(rows) :
                        /\ rows[j].Address = rows[i].Address
                        /\ rows[j].Date = rows[i].Date}
        nth(k) == CHOOSE i \in kept : Cardinality({j \in kept : j <= i}) = k
    IN  [k \in 1..Cardinality(kept) |-> rows[nth(k)]]

\* ingest(df_new), lines 18-24, on the file hist (exists: HIST.exists()):
\* the file it leaves.
ingest(hist, df_new) ==
    [exists |-> TRUE,
     rows |-> IF hist.exists THEN drop_duplicates_last(hist.rows \o df_new) ELSE df_new]

NoSalesFile == [exists |-> FALSE, rows |-> <<>>]

\* A call of ingest, the first on no file and each later one on the file
\* the call before it left.
IngestCall ==
    /\ call = NoCall \/ call.fn = "ingest"
    /\ \E df_new \in IngestFrames :
         LET hist == IF call = NoCall THEN NoSalesFile ELSE call.file
         IN  call' = [fn |-> "ingest", before |-> hist, df_new |-> df_new,
                      file |-> ingest(hist, df_new)]
    /\ UNCHANGED <<cacheFile, memo, histFile, histMemo, sess, batch>>

\* The caller is done with the result.
CallDone ==
    /\ call # NoCall
    /\ call' = NoCall
    /\ UNCHANGED <<cacheFile, memo, histFile, histMemo, sess, batch>>

NextCalls ==
    \/ GeocodeAddressCall
    \/ HaversineCall
    \/ FilterCall
    \/ LocalAdjustmentCall
    \/ ValuationCall
    \/ StoreLookupCall
    \/ IngestCall
    \/ CallDone

\* The direct calls leave the app and the script at rest.
InitCalls ==
    /\ cacheFile = NoFile
    /\ memo = [a \in GeoAddrs |-> NoMemo]
    /\ histFile = NoHist
    /\ histMemo = NoHistMemo
    /\ sess = [s \in Sessions |-> IdleSession]
    /\ batch = IdleBatch
    /\ call = NoCall

SpecCalls == InitCalls /\ [][NextCalls]_vars

\* ------------------------------------------------------------ properties
FileRows(f) == {f.rows[i] : i \in 1..Len(f.rows)}

\* The file has a row whose address text is the address.
HasEntry(f, address) == \E r \in FileRows(f) : r.address = address

\* This step is the write of session s's store (and the end of its request).
StoreStep(s) == sess[s].pc = "store_write" /\ sess'[s].pc = "done"

\* No other writer wrote the file between the read and the write of s's store.
Alone(s) == sess[s].cache_df = read_geocode_cache_df(cacheFile)

\* This step is session s calling cached_geocode for a non-blank address
\* whose result is not memoized as a success.
CallStep(s) ==
    /\ sess[s].pc = "idle"
    /\ sess'[s].pc # "idle"
    /\ ~IsBlank(sess'[s].address)
    /\ ~(memo[sess'[s].address].hit /\ memo[sess'[s].address].lat.k = "num")

\* C1: round trip.  When a store of (A, lat, lon) completes with no other
\* writer in between and the file had no entry for A, the disk lookup of A
\* on the file it leaves returns exactly (lat, lon).
C1_RoundTrip ==
    [][\A s \in Sessions :
          (StoreStep(s) /\ Alone(s) /\ ~HasEntry(cacheFile, sess[s].address))
          => lookup(cacheFile', sess[s].address) = Hit(sess[s].lat, sess[s].lon)]_vars

\* C2: first write wins.  When session p has stored (A, lat1, lon1), its row
\* is in the file, and session q then runs a store of A with other
\* coordinates (read and write, no writer in between), q's store leaves the
\* file as it is and the lookup of A still returns (lat1, lon1).
C2_FirstWriteWins ==
    [][\A p, q \in Sessions :
          ( /\ p # q
            /\ sess[p].pc = "done" /\ sess[p].wrote
            /\ [address |-> sess[p].address, lat |-> sess[p].lat, lon |-> sess[p].lon]
                 \in FileRows(cacheFile)
            /\ StoreStep(q) /\ Alone(q)
            /\ sess[q].address = sess[p].address
            /\ <<sess[q].lat, sess[q].lon>> # <<sess[p].lat, sess[p].lon>> )
          => /\ cacheFile' = cacheFile
             /\ lookup(cacheFile', sess[p].address) = Hit(sess[p].lat, sess[p].lon)]_vars

\* C3: uniqueness.  The cache file never holds two rows with the same
\* address.
C3_OneRowPerAddress ==
    \A i, j \in 1..Len(cacheFile.rows) :
        i # j => cacheFile.rows[i].address # cacheFile.rows[j].address

\* C4: only successful geocodes are cached.  Every row a step adds to the
\* cache file has a latitude and a longitude, whoever writes the file.
C4_EntriesHaveCoordinates ==
    [][\A r \in FileRows(cacheFile') \ FileRows(cacheFile) :
          r.lat.k = "num" /\ r.lon.k = "num"]_vars

\* C5: entries are immutable and never deleted.  Every row of the cache
\* file is a row of the file after any step.
C5_EntriesKept == [][FileRows(cacheFile) \subseteq FileRows(cacheFile')]_vars

\* C6: the lost-update race.  With two sessions that have each completed a
\* store that wrote the file, for different addresses, the file lacks the
\* address of one only when the other wrote last from a read that did not
\* see it; the witness is the interleaving in which that happens on a cache
\* that held neither address.
C6_LostOnlyToStaleWriter ==
    \A p, q \in Sessions :
        ( /\ p # q
          /\ sess[p].pc = "done" /\ sess[p].wrote
          /\ sess[q].pc = "done" /\ sess[q].wrote
          /\ sess[p].address # sess[q].address
          /\ ~HasEntry(cacheFile, sess[p].address) )
        => /\ HasEntry(cacheFile, sess[q].address)
           /\ sess[p].address \notin sess[q].seen

C6_LostUpdate ==
    /\ sess["s1"].pc = "done" /\ sess["s1"].wrote /\ sess["s1"].address = AddrA
    /\ sess["s2"].pc = "done" /\ sess["s2"].wrote /\ sess["s2"].address = AddrB
    /\ sess["s1"].seen = {} /\ sess["s2"].seen = {}
    /\ Len(cacheFile.rows) = 1
    /\ HasEntry(cacheFile, AddrA) # HasEntry(cacheFile, AddrB)

\* C7: failures are never cached.  A call of cached_geocode for an address
\* the disk lookup misses (and with no successful result memoized) calls
\* the geocoder, whatever earlier calls returned.
C7_FailureRetried ==
    [][\A s \in Sessions :
          (CallStep(s) /\ lookup(cacheFile, sess'[s].address).k = "miss")
          => sess'[s].pc = "cg_geocode"]_vars

\* C8: geocoder failure.  A finished request for a non-blank address whose
\* geocoding gave no coordinates has a result with factor 1.0, the adjusted
\* price equal to the base price and no comps, and has not written the
\* cache file.
C8_GeocodeFailure ==
    \A s \in Sessions :
        ( /\ sess[s].pc = "done"
          /\ ~IsBlank(sess[s].address)
          /\ (sess[s].lat = NoneV \/ sess[s].lon = NoneV) )
        => /\ sess[s].result.status = "done"
           /\ sess[s].result.factor = Scale
           /\ sess[s].result.adjusted_price = sess[s].result.base_price
           /\ sess[s].result.comps = <<>>
           /\ ~sess[s].wrote

C8_FailedWithData ==
    /\ sess["s1"].pc = "done"
    /\ sess["s1"].address = AddrA
    /\ sess["s1"].lat = NoneV
    /\ sess["s1"].result.base_price = Num(50)
    /\ histMemo.hit /\ histMemo.df.rows # <<>>
    /\ cacheFile = NoFile

\* The cache file is unparseable, empty, or a table without one of the
\* columns address, lat, lon.
Corrupt(f) == ReadCsvRaises(f) \/ (f.kind = "table" /\ ~(AllCols \subseteq f.cols))

\* C9: a corrupt cache file is an empty cache.  A call of cached_geocode on
\* a corrupt file reports not-found and goes on to the geocoder; no
\* exception leaves cached_geocode.
C9_CorruptIsEmpty ==
    [][\A s \in Sessions :
          (CallStep(s) /\ ~memo[sess'[s].address].hit /\ Corrupt(cacheFile))
          => sess'[s].pc = "cg_geocode"]_vars

\* C10: recovery from corruption.  A store of (A, lat, lon) on an
\* unparseable file leaves a table whose rows are exactly (A, lat, lon), and
\* the lookup of A then returns (lat, lon).
C10_Recovery ==
    [][\A s \in Sessions :
          (StoreStep(s) /\ Alone(s) /\ ReadCsvRaises(cacheFile))
          => /\ cacheFile' = TableFile(AllCols, << [address |-> sess[s].address,
                                                   lat |-> sess[s].lat,
                                                   lon |-> sess[s].lon] >>)
             /\ lookup(cacheFile', sess[s].address) = Hit(sess[s].lat, sess[s].lon)]_vars

\* The surroundings of a successful geocoding: a key, an answer that
\* arrives with a 2xx status, parses, has the status OK and a location with
\* both members.
GeoSuccess(env) ==
    /\ env.key /\ env.transport = "ok" /\ env.http = "2xx"
    /\ env.body.json /\ env.body.status = "OK" /\ env.body.results = "location"
    /\ env.body.lat.k = "num" /\ env.body.lng.k = "num"

\* C11: geocode_address never raises; a missing key, a transport error, a
\* non-2xx status, a non-OK API status and a malformed or empty body each
\* give (None, None), and a success gives the two coordinates, both
\* non-null.
C11_FailureOrCoordinates ==
    call.fn = "geocode_address"
    => /\ call.out.k = "return"
       /\ IF GeoSuccess(call.env)
          THEN /\ call.out.lat = call.env.body.lat /\ call.out.lon = call.env.body.lng
               /\ call.out.lat.k = "num" /\ call.out.lon.k = "num"
          ELSE call.out.lat = NoneV /\ call.out.lon = NoneV

\* C12: an empty comp set is a valid outcome.  A valuation whose comp set is
\* empty has the factor 1.0 and the adjusted price equal to the base price;
\* local_adjustment returns the factor 1.0 when its comp set is empty.
C12_EmptyCompsNoAdjustment ==
    /\ (call.fn = "valuation" /\ call.out.comps = <<>>)
       => /\ call.out.factor = Scale /\ ~call.out.moved
          /\ call.out.adjusted_price = call.base_price
    /\ (call.fn = "local_adjustment" /\ call.out.k = "return" /\ call.out.comps = <<>>)
       => call.out.factor = Num(Scale)

\* A valuation with coordinates, a base price and a dataset in which the
\* filter finds no sale.
C12_NoCompsInWindow ==
    /\ call.fn = "valuation"
    /\ call.lat = Num(1) /\ call.lon = Num(1) /\ call.base_price = Num(50)
    /\ call.hist.rows # <<>>
    /\ call.out.stages = <<"BasePrediction", "CompFiltering", "Done">>
    /\ call.out.comps = <<>>

\* The worked scenario: the subject at the grid point (1, 1), radius 2 km (4
\* half kilometres), 3 months, base price 5,000,000 (50 units), the dataset
\* HistTable (comps at 0.5, 1.5 and 3.0 km with prices 5.2M, 4.8M and 6.0M,
\* an old sale and a sale without a price), the comp model predicting 5.0M
\* for every comp.
Scenario ==
    /\ call.fn = "valuation"
    /\ call.lat = Num(1) /\ call.lon = Num(1)
    /\ call.radius_km = 4 /\ call.months = 3
    /\ call.base_price = Num(50) /\ call.model = "flat"
    /\ call.hist = load_historical_sales(HistTable)

\* C13: in the worked scenario exactly the first two comps are retained,
\* their ratios are 1.04 and 0.96, the factor is 1.00, the adjusted price is
\* 5,000,000, the comp count is 2 and the confidence is Low, all as the
\* result reports them (three decimals, whole units).
C13_WorkedScenario ==
    Scenario
    => /\ call.out.comps = SubSeq(HistTable.rows, 1, 2)
       /\ [i \in 1..Len(call.out.comps) |->
              Ratio(call.out.comps[i].Price.v, house_predict(call.model, call.out.comps[i]))]
            = <<1040, 960>>
       /\ call.out.factor = Scale
       /\ call.out.adjusted_price = Num(50)
       /\ Len(call.out.comps) = 2
       /\ call.out.confidence = "Low"

\* The scenario has run through the comp re-ranking.
C13_ScenarioRun ==
    /\ Scenario
    /\ call.out.stages = <<"BasePrediction", "CompFiltering", "CompReranking", "Done">>
    /\ haversine_km(call.lat, call.lon, HistTable.rows[3].lat, HistTable.rows[3].lon) = Num(6)
    /\ HistTable.rows[3].Date.v >= Now - DaysPerMonth * call.months

\* C14: the validity gate as an invariant.  Whichever path computed it, the
\* factor of a valuation result is finite and strictly positive, a
\* candidate that is not having been replaced by 1.0.
C14_FactorPositive ==
    call.fn = "valuation" => call.out.factor > 0

\* C15: the confidence label is a function of the comp count alone.  A
\* result with a base price is labelled High with 10 comps or more, Medium
\* with 5 to 9 and Low with 4 or fewer, the count being that of the comps
\* returned with the result.
C15_ConfidenceByCount ==
    (call.fn = "valuation" /\ call.out.base_price # NoneV)
    => LET comp_count == Len(call.out.comps)
       IN  /\ comp_count >= 10 => call.out.confidence = "High"
           /\ (5 <= comp_count /\ comp_count <= 9) => call.out.confidence = "Medium"
           /\ comp_count <= 4 => call.out.confidence = "Low"

\* A result with exactly 10 comps.
C15_TenComps ==
    /\ call.fn = "valuation"
    /\ call.out.base_price = Num(50)
    /\ Len(call.out.comps) = 10
    /\ call.out.confidence = "High"

\* The stages of a valuation request in the order of the statement.
StageOrder == <<"Geocoding", "BasePrediction", "CompFiltering", "CompReranking", "Done">>

StageRank(stage) == CHOOSE i \in 1..Len(StageOrder) : StageOrder[i] = stage

StagesOf(result) == {result.stages[i] : i \in 1..Len(result.stages)}

\* C16: a finished request went through Geocoding, BasePrediction,
\* CompFiltering, CompReranking, Done in that order, each at most once, and
\* ended in Done; it skipped Geocoding exactly when the address was blank,
\* and then touched neither the memoized results, the cache file nor the
\* geocoder; it skipped CompFiltering and CompReranking when a coordinate,
\* the historical data or the base price was missing; and a request that
\* skipped any stage reports factor 1.0 and no comps.
C16_StageOrder ==
    \A s \in Sessions :
        sess[s].pc = "done" =>
            LET result == sess[s].result
                stages == result.stages
            IN  /\ stages # <<>>
                /\ stages[Len(stages)] = "Done"
                /\ \A i, j \in 1..Len(stages) :
                       i < j => StageRank(stages[i]) < StageRank(stages[j])
                /\ ("Geocoding" \notin StagesOf(result)) <=> IsBlank(sess[s].address)
                /\ IsBlank(sess[s].address) => sess[s].touched = {}
                /\ ~IsBlank(sess[s].address) => "memo" \in sess[s].touched
                /\ (\/ sess[s].lat = NoneV \/ sess[s].lon = NoneV
                    \/ histMemo.df.rows = <<>> \/ result.base_price = NoneV)
                   => /\ "CompFiltering" \notin StagesOf(result)
                      /\ "CompReranking" \notin StagesOf(result)
                /\ StagesOf(result) # {StageOrder[i] : i \in 1..Len(StageOrder)}
                   => /\ result.status = "done"
                      /\ result.factor = Scale
                      /\ result.comps = <<>>

\* A request with a blank address finished without the Geocoding stage.
C16_BlankAddressDone ==
    \E s \in Sessions :
        /\ sess[s].pc = "done"
        /\ IsBlank(sess[s].address)
        /\ sess[s].touched = {}
        /\ sess[s].result.stages = <<"BasePrediction", "Done">>
        /\ sess[s].result.factor = Scale
        /\ sess[s].result.comps = <<>>

\* A request went through all five stages.
C16_AllStages ==
    \E s \in Sessions :
        /\ sess[s].pc = "done"
        /\ sess[s].result.stages = StageOrder

\* C17: no submitted request is aborted: a failure of the geocoding, of
\* the cache file, of the historical data or of the comp model leaves the
\* request on its way to Done, and a finished request reports the base
\* price the base prediction gave.
C17_NeverAborted ==
    \A s \in Sessions : sess[s].pc # "raised"

\* C18: for all points p and q, local_analysis.haversine and
\* streamlit_app.haversine_km (coordinates not null) give distance 0 from p
\* to p, and the same distance from p to q as from q to p.
C18_HaversineZeroSymmetric ==
    call.fn = "haversine" =>
        /\ call.pp = 0
        /\ call.pq = call.qp
        /\ call.km_pp = Num(0)
        /\ call.km_pq = call.km_qp

\* Both implementations measured two different points, in both directions.
C18_TwoPoints ==
    /\ call.fn = "haversine"
    /\ call.p[1] < call.q[1]
    /\ call.p[2] # call.q[2]
    /\ call.pq > 0
    /\ call.km_qp.k = "num"
    /\ call.km_qp.v > 0

\* The number of times the record x occurs in the sequence sq.
Occurrences(sq, x) == Cardinality({i \in 1..Len(sq) : sq[i] = x})

RecordsOf(sq) == {sq[i] : i \in 1..Len(sq)}

\* C19: of the records handed to the filter (those the dropna before it
\* kept), the comp set holds exactly those with distance <= radius_km and
\* date >= cutoff, both bounds included, as often as the dataset holds
\* them, and nothing else; in render_valuation and in local_adjustment,
\* each with the cutoff it computes.
C19_FilterPredicate ==
    call.fn = "filter" =>
        LET handed == dropna(call.rows)
            local_handed == local_dropna(call.rows)
            cutoff == Now - DaysPerMonth * call.months
            local_cutoff == DateOffsetBefore(Now, call.months)
            lat == Num(call.lat)
            lon == Num(call.lon)
        IN  /\ RecordsOf(call.recent) \subseteq RecordsOf(handed)
            /\ \A x \in RecordsOf(handed) :
                   Occurrences(call.recent, x) =
                       IF /\ haversine_km(lat, lon, x.lat, x.lon).v <= call.radius_km
                          /\ x.Date.v >= cutoff
                       THEN Occurrences(handed, x) ELSE 0
            /\ RecordsOf(call.df_filtered) \subseteq RecordsOf(local_handed)
            /\ \A x \in RecordsOf(local_handed) :
                   Occurrences(call.df_filtered, x) =
                       IF /\ haversine(call.lat, call.lon, x.lat.v, x.lon.v) <= call.radius_km
                          /\ x.Date.v >= local_cutoff
                       THEN Occurrences(local_handed, x) ELSE 0

\* Both filters ran on records lying on the bounds: one at the radius and
\* on the cutoff day of render_valuation is kept by both, one on the cutoff
\* day of local_adjustment is kept by it, one beyond the radius is kept
\* by neither.
C19_OnTheBounds ==
    /\ call.fn = "filter"
    /\ call.rows = HistBoundary.rows
    /\ call.lat = 1
    /\ call.radius_km = 4
    /\ call.months = 3
    /\ haversine_km(Num(1), Num(1), call.rows[1].lat, call.rows[1].lon) = Num(4)
    /\ call.rows[1].Date.v = Now - DaysPerMonth * 3
    /\ call.rows[1] \in RecordsOf(call.recent)
    /\ call.rows[1] \in RecordsOf(call.df_filtered)
    /\ call.rows[3].Date.v = DateOffsetBefore(Now, 3)
    /\ call.rows[3] \in RecordsOf(call.df_filtered)
    /\ call.rows[4] \notin RecordsOf(call.recent) \cup RecordsOf(call.df_filtered)

\* C20: the cutoff of local_adjustment is the cutoff of render_valuation,
\* now minus 30 days for each month of lookback, and on the same dataset,
\* point, radius and lookback both keep the same records (of those with
\* every field present).
C20_SameCutoff ==
    call.fn = "filter" =>
        /\ DateOffsetBefore(Now, call.months) = Now - DaysPerMonth * call.months
        /\ dropna(call.df_filtered) = call.recent

\* C21: a record with lat, lon, Price, Area or Date missing is in no comp
\* set, neither that of render_valuation nor that of local_adjustment.
C21_IncompleteNeverComp ==
    call.fn = "filter" =>
        \A x \in RecordsOf(call.recent) \cup RecordsOf(call.df_filtered) :
            \A c \in {x.lat, x.lon, x.Price, x.Area, x.Date} : c.k = "num"

\* The comp set of render_valuation holds complete records only.
C21_RecentComplete ==
    call.fn = "filter" =>
        \A x \in RecordsOf(call.recent) :
            \A c \in {x.lat, x.lon, x.Price, x.Area, x.Date} : c.k = "num"

\* The comp model predicted for every comp of the result the price it was
\* sold at.
PredEqualsActual ==
    /\ call.fn = "valuation"
    /\ call.model \in {"flat", "per_area"}
    /\ call.out.comps # <<>>
    /\ \A i \in 1..Len(call.out.comps) :
           house_predict(call.model, call.out.comps[i]) = call.out.comps[i].Price.v

CallRecent ==
    recent_comps(call.hist.rows, call.lat, call.lon, call.radius_km, call.months)

\* C23: when the comp set is not empty and the comp model is missing or its
\* prediction raised, the factor is median(comp prices) / base_price and
\* the result carries the comps; with a base price of zero there is no
\* division and the factor stays 1.0.
C23_FallbackFactor ==
    (/\ call.fn = "valuation"
     /\ call.model \in {"none", "raises"}
     /\ "CompReranking" \in StagesOf(call.out))
    => IF call.base_price.v = 0
       THEN call.out.factor = Scale
       ELSE /\ call.out.factor =
                   RoundDiv(Median([i \in 1..Len(CallRecent) |-> CallRecent[i].Price.v]) * Scale,
                            call.base_price.v)
            /\ call.out.comps = CallRecent

\* C24: a result that reports a base price reports as adjusted price that
\* base price times the factor it reports, whichever path set the factor
\* (the comp model, the reset of the validity gate, the median fallback, the
\* defaults).
C24_AdjustedIsBaseTimesFactor ==
    (call.fn = "valuation" /\ call.out.base_price # NoneV)
    => /\ call.out.adjusted_price.k = "num"
       /\ call.out.adjusted_price.v * Scale - call.out.base_price.v * call.out.factor
              \in -(Scale \div 2)..(Scale \div 2)

\* A result with comps whose factor is not 1.0 and whose adjusted price is
\* not the base price.
C24_Adjusted ==
    /\ call.fn = "valuation"
    /\ call.out.base_price = Num(50)
    /\ call.out.comps # <<>>
    /\ call.out.factor # Scale
    /\ call.out.adjusted_price # call.out.base_price

\* A result whose candidate factor the validity gate rejected.
C24_GateReset ==
    /\ call.fn = "valuation"
    /\ call.model = "flat"
    /\ call.out.base_price = Num(50)
    /\ call.out.comps # <<>>
    /\ Median([i \in 1..Len(call.out.comps) |->
                  Ratio(call.out.comps[i].Price.v, house_predict(call.model, call.out.comps[i]))])
         <= 0
    /\ call.out.factor = Scale

\* C25: when the dataset file lacks one of the columns lat, lon, Price,
\* Area, Date, the local adjustment is skipped: the factor is 1.0, there
\* are no comps, the comp filter (and with it every distance) is not
\* computed, and the result reports the base prediction unchanged.
C25_MissingColumnsSkip ==
    (/\ call.fn = "valuation"
     /\ call.file.kind = "table"
     /\ ~(HistCols \subseteq call.file.cols))
    => /\ call.out.status = "done"
       /\ call.out.factor = Scale
       /\ ~call.out.moved
       /\ call.out.comps = <<>>
       /\ "CompFiltering" \notin StagesOf(call.out)
       /\ "CompReranking" \notin StagesOf(call.out)
       /\ call.out.base_price = call.base_price
       /\ call.out.adjusted_price = call.base_price

\* A valuation with coordinates and a base price ran on a dataset that has
\* rows and no Area column.
C25_NoAreaColumn ==
    /\ call.fn = "valuation"
    /\ call.file = HistNoArea
    /\ call.hist.rows # <<>>
    /\ call.lat = Num(1) /\ call.lon = Num(1)
    /\ call.base_price = Num(50)
    /\ call.out.stages = <<"BasePrediction", "Done">>
    /\ call.out.base_price = Num(50)

\* C26: for addresses A and B that differ only in case or in surrounding
\* whitespace, the lookup of B misses after A alone was stored, and after B
\* was stored as well the file holds both, each with its own coordinates.
C26_VariantsDistinct ==
    call.fn = "store_lookup" =>
        /\ call.b_before.k = "miss"
        /\ Len(call.after_b.rows) = 2
        /\ call.a_after = Hit(P1.lat, P1.lon)
        /\ call.b_after = Hit(P2.lat, P2.lon)

\* The same for addresses none of which is an NA marker of read_csv.
C26_VariantsDistinctNoMarker ==
    (call.fn = "store_lookup" /\ {call.a, call.b} \cap NaValues = {})
    => /\ call.b_before.k = "miss"
       /\ Len(call.after_b.rows) = 2
       /\ call.a_after = Hit(P1.lat, P1.lon)
       /\ call.b_after = Hit(P2.lat, P2.lon)

\* Two variants of a street address were stored and found again.
C26_BothStored ==
    /\ call.fn = "store_lookup"
    /\ call.a = AddrA
    /\ call.b = AddrPadded
    /\ call.b_before.k = "miss"
    /\ call.a_after = Hit(P1.lat, P1.lon)
    /\ call.b_after = Hit(P2.lat, P2.lon)

Persisted(f, a) ==
    IF f.kind = "table" /\ AllCols \subseteq f.cols
    THEN {[lat |-> f.rows[i].lat, lon |-> f.rows[i].lon] :
              i \in {j \in 1..Len(f.rows) : /\ f.rows[j].address = a
                                            /\ f.rows[j].lat.k = "num"
                                            /\ f.rows[j].lon.k = "num"}}
    ELSE {}

\* C28: a request for an address the cache file holds an entry for gets the
\* coordinates of that entry in one step of cached_geocode: geocode_address
\* is not called and the cache file is not written.
C28_HitSkipsGeocoder ==
    [][\A s \in Sessions : \A a \in GeoAddrs :
          (/\ sess[s].pc = "idle" /\ sess'[s].pc # "idle"
           /\ sess'[s].address = a
           /\ Persisted(cacheFile, a) # {})
          => /\ sess'[s].pc = "done"
             /\ "geocoder" \notin sess'[s].touched
             /\ cacheFile' = cacheFile
             /\ [lat |-> sess'[s].lat, lon |-> sess'[s].lon] \in Persisted(cacheFile, a)]_vars

\* Whether no two rows have the same Address and Date.
KeysDistinct(rows) ==
    \A i, j \in 1..Len(rows) :
        (rows[i].Address = rows[j].Address /\ rows[i].Date = rows[j].Date) => i = j

\* Whether rows holds, for every Address and Date of df_new, the last row
\* of df_new with that Address and Date.
LastKept(rows, df_new) ==
    \A i \in 1..Len(df_new) :
        (~\E j \in (i + 1)..Len(df_new) :
              df_new[j].Address = df_new[i].Address /\ df_new[j].Date = df_new[i].Date)
        => \E k \in 1..Len(rows) : rows[k] = df_new[i]

\* C29: after every call of ingest, the first one included, the file has no
\* two rows with the same Address and Date and holds, for a key given more
\* than once, the row ingested last.
C29_NoDuplicateKeys ==
    call.fn = "ingest" =>
        /\ KeysDistinct(call.file.rows)
        /\ LastKept(call.file.rows, call.df_new)

\* The same for the calls that found the file.
C29_NoDuplicateKeysLater ==
    (call.fn = "ingest" /\ call.before.exists) =>
        /\ KeysDistinct(call.file.rows)
        /\ LastKept(call.file.rows, call.df_new)

\* The address text a call of place_details was made for.
CalledFor == {batch.calls[i].v : i \in 1..Len(batch.calls)}

\* C30: in a run of batch_geocode, place_details is called at most once for
\* an address, whether the call located it or not, and not at all for an
\* address the cache file held when the run started.
C30_LookupOncePerAddress ==
    batch.pc = "loop" =>
        /\ \A i, j \in 1..Len(batch.calls) : batch.calls[i].v = batch.calls[j].v => i = j
        /\ CalledFor \cap batch.start = {}

\* The same for the runs whose raw dataset has no NA marker as an address.
C30_LookupOncePerPlainAddress ==
    (batch.pc = "loop" /\ \A i \in 1..Len(batch.input) : batch.input[i].Address.k # "nan64")
    => /\ \A i, j \in 1..Len(batch.calls) : batch.calls[i].v = batch.calls[j].v => i = j
       /\ CalledFor \cap batch.start = {}

\* A run came to the end of a raw dataset that has an address twice and an
\* address of the cache file, after a call that did not locate the address.
C30_RepeatedAddressRun ==
    /\ batch.pc = "loop"
    /\ batch.input = RawMixed
    /\ batch.i > Len(batch.input)
    /\ batch.start = {AddrA}
    /\ batch.calls = <<Str(AddrB)>>
    /\ batch.results[1].lat = NoneV
    /\ batch.results[3].lat = NoneV

=============================================================================
